---- MODULE Spec2Model ----
(***************************************************************************)
(* Sudoku as a 0/1 linear feasibility problem (src/main.py).               *)
(*                                                                         *)
(* solve_sudoku builds 729 binary variables x[r,c,v] and five families of  *)
(* "sum == 1" rows, runs the solver once, and reads the grid back;         *)
(* validate_sudoku re-checks a grid by size-of-set and sum.                *)
(*                                                                         *)
(* The solver is an external library.  It is modelled by its contract: it  *)
(* reports kOptimal together with some 0/1 point satisfying every row of   *)
(* the model, or kInfeasible when no such point exists, or another status. *)
(* Variable values are floats in the program; here a value is an integer   *)
(* number of tenths (Den = 10 stands for 1.0).                             *)
(***************************************************************************)
EXTENDS Integers, Sequences, FiniteSets, TLC

VARIABLES pc, puzzle, constraints, status, vals, solution, valid, q, out

vars == <<pc, puzzle, constraints, status, vals, solution, valid, q, out>>

(***************************************************************************)
(* Program constants                                                       *)
(***************************************************************************)
n == 9
block == 3
GroupSum == 45
Den == 10

values == 1..n
rows == 0..(n - 1)
cols == 0..(n - 1)
num_vars == n * n * n
Vars == 0..(num_vars - 1)

None == <<>>

Abs(a) == IF a < 0 THEN -a ELSE a

(***************************************************************************)
(* Map (r, c, v) -> flat index                                             *)
(***************************************************************************)
(* Faulty variants, used to show that the properties depend on the index. *)
var_index_MissingFactor(r, c, v) == r * n + c * n + (v - 1)

var_index_Swapped(r, c, v) == c * n * n + r * n + (v - 1)

var_index(r, c, v) == r * n * n + c * n + (v - 1)

(***************************************************************************)
(* The four uniqueness families, each a list of rows in the order the      *)
(* loops add them.  A row is the list of the variable indices it sums.     *)
(***************************************************************************)
CellConstrs ==
  [i \in 1..(n * n) |->
     LET r == (i - 1) \div n
         c == (i - 1) % n
     IN  [fam |-> "cell", terms |-> [k \in 1..n |-> var_index(r, c, k)]]]

RowConstrs ==
  [i \in 1..(n * n) |->
     LET r == (i - 1) \div n
         v == ((i - 1) % n) + 1
     IN  [fam |-> "row", terms |-> [k \in 1..n |-> var_index(r, k - 1, v)]]]

(* Faulty variant: the column family sums over c, repeating the row family. *)
ColConstrs_AsRows ==
  [i \in 1..(n * n) |->
     LET r == (i - 1) \div n
         v == ((i - 1) % n) + 1
     IN  [fam |-> "col", terms |-> [k \in 1..n |-> var_index(r, k - 1, v)]]]

ColConstrs ==
  [i \in 1..(n * n) |->
     LET c == (i - 1) \div n
         v == ((i - 1) % n) + 1
     IN  [fam |-> "col", terms |-> [k \in 1..n |-> var_index(k - 1, c, v)]]]

BlockConstrs ==
  [i \in 1..(n * n) |->
     LET br == ((i - 1) \div (n * block)) * block
         bc == (((i - 1) \div n) % block) * block
         v  == ((i - 1) % n) + 1
     IN  [fam |-> "block",
          terms |-> [k \in 1..n |->
                       var_index(br + ((k - 1) \div block),
                                 bc + ((k - 1) % block), v)]]]

(***************************************************************************)
(* Constraint 5: one row  x[var_index(r, c, val)] == 1  per non-zero cell. *)
(* x has num_vars entries: an index past the end raises IndexError.        *)
(***************************************************************************)
(* Faulty variant: row and column exchanged in the index of a given.      *)
GivenIndex_Swapped(p, r, c) == var_index(c, r, p[r][c])

GivenIndex(p, r, c) == var_index(r, c, p[r][c])

GivenRaises(p) ==
  \E r \in rows, c \in cols : p[r][c] # 0 /\ GivenIndex(p, r, c) >= num_vars

(* Faulty variants: the last row of the puzzle is not visited; entries    *)
(* above 9 are skipped silently.                                          *)
GivenConstrs_SkipLastRow(p) ==
  LET all == [i \in 1..(n * (n - 1)) |->
                LET r == (i - 1) \div n
                    c == (i - 1) % n
                IN  [fam |-> "given", cell |-> <<r, c>>,
                     terms |-> <<GivenIndex(p, r, c)>>]]
  IN  SelectSeq(all, LAMBDA g : p[g.cell[1]][g.cell[2]] # 0)

GivenConstrs_InRangeOnly(p) ==
  LET all == [i \in 1..(n * n) |->
                LET r == (i - 1) \div n
                    c == (i - 1) % n
                IN  [fam |-> "given", cell |-> <<r, c>>,
                     terms |-> <<GivenIndex(p, r, c)>>]]
  IN  SelectSeq(all, LAMBDA g : p[g.cell[1]][g.cell[2]] \in values)

GivenConstrs(p) ==
  LET all == [i \in 1..(n * n) |->
                LET r == (i - 1) \div n
                    c == (i - 1) % n
                IN  [fam |-> "given", cell |-> <<r, c>>,
                     terms |-> <<GivenIndex(p, r, c)>>]]
  IN  SelectSeq(all, LAMBDA g : p[g.cell[1]][g.cell[2]] # 0)

(***************************************************************************)
(* The solver's contract.  A 0/1 point is the set of variables at 1.       *)
(***************************************************************************)
RowSum(con, ones) ==
  Cardinality({k \in DOMAIN con.terms : con.terms[k] \in ones})

Satisfies(ones, cs) == \A i \in DOMAIN cs : RowSum(cs[i], ones) = 1

TermSet(con) == {con.terms[k] : k \in DOMAIN con.terms}

Repeated(con) ==
  {u \in TermSet(con) :
     Cardinality({k \in DOMAIN con.terms : con.terms[k] = u}) > 1}

(* Exhaustive search for every point satisfying "exactly one of V" for    *)
(* each V in open, given the variables already at one and at zero.  A row *)
(* with a single variable left forces it; otherwise the search branches   *)
(* on a row with the fewest variables left.                               *)
RECURSIVE Search(_, _, _)
Search(open, ones, zeros) ==
  IF open = {}
  THEN {ones \cup F : F \in SUBSET (Vars \ (ones \cup zeros))}
  ELSE IF \E V \in open : V \subseteq zeros
  THEN {}
  ELSE LET U == UNION {V \ zeros : V \in {W \in open : Cardinality(W \ zeros) = 1}}
       IN  IF U # {}
           THEN IF \E V \in open : Cardinality(V \cap U) > 1
                THEN {}
                ELSE Search({V \in open : V \cap U = {}},
                            ones \cup U,
                            zeros \cup UNION {V \ U : V \in {W \in open : W \cap U # {}}})
           ELSE LET m == CHOOSE k \in 1..num_vars :
                           /\ \E V \in open : Cardinality(V \ zeros) = k
                           /\ \A j \in 1..(k - 1) :
                                \A V \in open : Cardinality(V \ zeros) # j
                    best == CHOOSE V \in open : Cardinality(V \ zeros) = m
                IN  UNION { Search({V \in open : u \notin V},
                                   ones \cup {u},
                                   zeros \cup UNION {V \ {u} : V \in {W \in open : u \in W}})
                            : u \in best \ zeros }

Solutions(cs) ==
  LET forced == UNION {Repeated(cs[i]) : i \in DOMAIN cs}
      groups == {TermSet(cs[i]) \ Repeated(cs[i]) : i \in DOMAIN cs}
  IN  Search(groups, {}, forced)

PointOf(ones) == [i \in Vars |-> IF i \in ones THEN Den ELSE 0]

(***************************************************************************)
(* Extraction loop: for v in values: if abs(val) > 0.5: solution[r][c] = v *)
(***************************************************************************)
(* Faulty variant: the threshold is 1.0 instead of 0.5.                   *)
Hit_Strict(vs, idx) == Abs(vs[idx]) > Den

Hit(vs, idx) == 2 * Abs(vs[idx]) > Den

(* Faulty variant: the scan stops at the first v above the threshold.     *)
RECURSIVE ScanCell_Break(_, _, _, _, _)
ScanCell_Break(vs, r, c, v, cur) ==
  IF v > n THEN cur
  ELSE IF 2 * Abs(vs[var_index(r, c, v)]) > Den THEN v
  ELSE ScanCell_Break(vs, r, c, v + 1, cur)

RECURSIVE ScanCell(_, _, _, _, _)
ScanCell(vs, r, c, v, cur) ==
  IF v > n THEN cur
  ELSE ScanCell(vs, r, c, v + 1,
                IF Hit(vs, var_index(r, c, v)) THEN v ELSE cur)

(* Faulty variant: the value is written to solution[c][r].                *)
ExtractGrid_Transposed(vs) ==
  [r \in rows |-> [c \in cols |-> ScanCell(vs, c, r, 1, 0)]]

ExtractGrid(vs) == [r \in rows |-> [c \in cols |-> ScanCell(vs, r, c, 1, 0)]]

(***************************************************************************)
(* validate_sudoku                                                         *)
(***************************************************************************)
RECURSIVE SumSeq(_)
SumSeq(s) == IF s = <<>> THEN 0 ELSE Head(s) + SumSeq(Tail(s))

SetOf(s) == {s[k] : k \in DOMAIN s}

GroupOk(s) == ~(Cardinality(SetOf(s)) # n \/ SumSeq(s) # GroupSum)

RowList(p, r) == [k \in 1..n |-> p[r][k - 1]]
ColList(p, c) == [k \in 1..n |-> p[k - 1][c]]
BlockList(p, br, bc) ==
  [k \in 1..n |-> p[br + ((k - 1) \div block)][bc + ((k - 1) % block)]]

BlockOrigins == {k * block : k \in 0..((n \div block) - 1)}

validate_sudoku(p) ==
  /\ \A r \in rows : GroupOk(RowList(p, r))
  /\ \A c \in cols : GroupOk(ColList(p, c))
  /\ \A br \in BlockOrigins, bc \in BlockOrigins : GroupOk(BlockList(p, br, bc))

(***************************************************************************)
(* Inputs.  Classic is the demonstration puzzle of the main block; Solved  *)
(* is its completed grid.  The main block prints its puzzle and then calls *)
(* solve_sudoku on it; a direct call of solve_sudoku gets Solved with up   *)
(* to MaxBlanks of the cells BlankCells emptied and, optionally, one of    *)
(* the cells EditCells overwritten by a value in 0..MaxVal.                *)
(* (0,3),(0,4),(3,3),(3,4) hold 6,7 / 7,6 in Solved: with all four empty   *)
(* the puzzle has two completions.                                         *)
(***************************************************************************)
MaxBlanks == 4
MaxVal == 10

FromRows(t) == [r \in rows |-> [c \in cols |-> t[r + 1][c + 1]]]

Classic ==
  FromRows(<< <<5,3,0, 0,7,0, 0,0,0>>,
              <<6,0,0, 1,9,5, 0,0,0>>,
              <<0,9,8, 0,0,0, 0,6,0>>,
              <<8,0,0, 0,6,0, 0,0,3>>,
              <<4,0,0, 8,0,3, 0,0,1>>,
              <<7,0,0, 0,2,0, 0,0,6>>,
              <<0,6,0, 0,0,0, 2,8,0>>,
              <<0,0,0, 4,1,9, 0,0,5>>,
              <<0,0,0, 0,8,0, 0,7,9>> >>)

Solved ==
  FromRows(<< <<5,3,4, 6,7,8, 9,1,2>>,
              <<6,7,2, 1,9,5, 3,4,8>>,
              <<1,9,8, 3,4,2, 5,6,7>>,
              <<8,5,9, 7,6,1, 4,2,3>>,
              <<4,2,6, 8,5,3, 7,9,1>>,
              <<7,1,3, 9,2,4, 8,5,6>>,
              <<9,6,1, 5,3,7, 2,8,4>>,
              <<2,8,7, 4,1,9, 6,3,5>>,
              <<3,4,5, 2,8,6, 1,7,9>> >>)

BlankCells == {<<0, 3>>, <<0, 4>>, <<3, 3>>, <<3, 4>>, <<8, 7>>}
EditCells == {<<0, 6>>, <<4, 4>>, <<8, 8>>}

SetCell(p, cell, v) == [p EXCEPT ![cell[1]][cell[2]] = v]

Blanked(p, S) == [r \in rows |-> [c \in cols |->
                    IF <<r, c>> \in S THEN 0 ELSE p[r][c]]]

BlankSets == {S \in SUBSET BlankCells : Cardinality(S) <= MaxBlanks}

Puzzles ==
  LET plain == {Blanked(Solved, S) : S \in BlankSets}
  IN  plain \cup {SetCell(p, e, v) : p \in plain, e \in EditCells, v \in 0..MaxVal}

(* Puzzles of the main block: Classic, Classic with one empty cell of      *)
(* ClassicEdits filled by any value 1..9, and the puzzles whose only       *)
(* givens are one value written twice within a row, column or block (at   *)
(* a cell of DupAnchors and at another cell of one of its groups).        *)
ClassicEdits == {<<0, 2>>, <<4, 4>>}
DupAnchors == {<<0, 0>>, <<4, 7>>}

Empty == [r \in rows |-> [c \in cols |-> 0]]

InOneGroup(a, b) ==
  \/ a[1] = b[1]
  \/ a[2] = b[2]
  \/ (a[1] \div block = b[1] \div block /\ a[2] \div block = b[2] \div block)

MainPuzzles ==
  {Classic}
    \cup {SetCell(Classic, e, v) : e \in ClassicEdits, v \in values}
    \cup {SetCell(SetCell(Empty, t[1], t[3]), t[2], t[3]) :
            t \in {u \in DupAnchors \X (rows \X cols) \X values :
                     u[1] # u[2] /\ InOneGroup(u[1], u[2])}}

(***************************************************************************)
(* solve_sudoku, one action per loop of the function, then the caller's    *)
(* validation of a returned grid.                                          *)
(***************************************************************************)
Init ==
  /\ \/ pc = "start" /\ puzzle \in Puzzles
     \/ pc = "main" /\ puzzle \in MainPuzzles
  /\ constraints = <<>>
  /\ status = "kNotset"
  /\ vals = <<>>
  /\ solution = None
  /\ valid = "unset"
  /\ q = <<0, 0, 1>>
  /\ out = -1

(* __main__: print_sudoku(puzzle, "Original Puzzle"), then solve_sudoku.   *)
MainPrint ==
  /\ pc = "main"
  /\ pc' = "printed"
  /\ UNCHANGED <<puzzle, constraints, status, vals, solution, valid, q, out>>

MainCall ==
  /\ pc = "printed"
  /\ pc' = "start"
  /\ UNCHANGED <<puzzle, constraints, status, vals, solution, valid, q, out>>

BuildCell ==
  /\ pc = "start"
  /\ constraints' = constraints \o CellConstrs
  /\ pc' = "cell"
  /\ UNCHANGED <<puzzle, status, vals, solution, valid, q, out>>

BuildRow ==
  /\ pc = "cell"
  /\ constraints' = constraints \o RowConstrs
  /\ pc' = "row"
  /\ UNCHANGED <<puzzle, status, vals, solution, valid, q, out>>

BuildCol ==
  /\ pc = "row"
  /\ constraints' = constraints \o ColConstrs
  /\ pc' = "col"
  /\ UNCHANGED <<puzzle, status, vals, solution, valid, q, out>>

BuildBlock ==
  /\ pc = "col"
  /\ constraints' = constraints \o BlockConstrs
  /\ pc' = "block"
  /\ UNCHANGED <<puzzle, status, vals, solution, valid, q, out>>

BuildGivens ==
  /\ pc = "block"
  /\ ~GivenRaises(puzzle)
  /\ constraints' = constraints \o GivenConstrs(puzzle)
  /\ pc' = "built"
  /\ UNCHANGED <<puzzle, status, vals, solution, valid, q, out>>

BuildGivensRaises ==
  /\ pc = "block"
  /\ GivenRaises(puzzle)
  /\ pc' = "raised"
  /\ UNCHANGED <<puzzle, constraints, status, vals, solution, valid, q, out>>

RunOptimal ==
  /\ pc = "built"
  /\ \E a \in Solutions(constraints) :
       /\ vals' = PointOf(a)
       /\ status' = "kOptimal"
  /\ pc' = "ran"
  /\ UNCHANGED <<puzzle, constraints, solution, valid, q, out>>

RunInfeasible ==
  /\ pc = "built"
  /\ Solutions(constraints) = {}
  /\ status' = "kInfeasible"
  /\ pc' = "ran"
  /\ UNCHANGED <<puzzle, constraints, vals, solution, valid, q, out>>

(* Any other status of the solver (an error, a limit), for any model.      *)
RunOther ==
  /\ pc = "built"
  /\ status' = "kSolveError"
  /\ pc' = "ran"
  /\ UNCHANGED <<puzzle, constraints, vals, solution, valid, q, out>>

ReturnNone ==
  /\ pc = "ran"
  /\ status # "kOptimal"
  /\ solution' = None
  /\ pc' = "returned"
  /\ UNCHANGED <<puzzle, constraints, status, vals, valid, q, out>>

Extract ==
  /\ pc = "ran"
  /\ ~(status # "kOptimal")
  /\ solution' = ExtractGrid(vals)
  /\ pc' = "returned"
  /\ UNCHANGED <<puzzle, constraints, status, vals, valid, q, out>>

Validate ==
  /\ pc = "returned"
  /\ solution # None
  /\ valid' = IF validate_sudoku(solution) THEN "True" ELSE "False"
  /\ pc' = "validated"
  /\ UNCHANGED <<puzzle, constraints, status, vals, solution, q, out>>

Next ==
  \/ MainPrint \/ MainCall
  \/ BuildCell \/ BuildRow \/ BuildCol \/ BuildBlock
  \/ BuildGivens \/ BuildGivensRaises
  \/ RunOptimal \/ RunInfeasible \/ RunOther
  \/ ReturnNone \/ Extract \/ Validate

Spec == Init /\ [][Next]_vars

(***************************************************************************)
(* The same pipeline with a solver whose reported values carry numerical   *)
(* noise: one of the first NoiseVars variables is reported as any of       *)
(* NoiseVals instead of its 0/1 value.                                     *)
(***************************************************************************)
NoiseVars == 27

NoiseVals == {-Den, -((Den \div 2) + 1), Den \div 2, (Den \div 2) + 1}

NoisyPuzzles ==
  {Solved, Blanked(Solved, {<<0, 3>>, <<0, 4>>, <<3, 3>>, <<3, 4>>})}

InitNoisy ==
  /\ pc = "start"
  /\ puzzle \in NoisyPuzzles
  /\ constraints = <<>>
  /\ status = "kNotset"
  /\ vals = <<>>
  /\ solution = None
  /\ valid = "unset"
  /\ q = <<0, 0, 1>>
  /\ out = -1

RunNoisy ==
  /\ pc = "built"
  /\ \E a \in Solutions(constraints), i \in 0..(NoiseVars - 1), e \in NoiseVals :
       /\ i \in Vars
       /\ vals' = [PointOf(a) EXCEPT ![i] = e]
       /\ status' = "kOptimal"
  /\ pc' = "ran"
  /\ UNCHANGED <<puzzle, constraints, solution, valid, q, out>>

NextNoisy ==
  \/ BuildCell \/ BuildRow \/ BuildCol \/ BuildBlock \/ BuildGivens
  \/ RunNoisy \/ Extract \/ Validate

SpecNoisy == InitNoisy /\ [][NextNoisy]_vars

(***************************************************************************)
(* Round trip: a completed grid is encoded as the point with               *)
(* value(var_index(r,c,v)) = 1 iff grid[r][c] = v, and the extraction loop *)
(* reads it back.  The grids are Solved with two digits exchanged, and     *)
(* the transposes of these.                                                *)
(***************************************************************************)
SwapDigits(g, a, b) ==
  [r \in rows |-> [c \in cols |->
     IF g[r][c] = a THEN b ELSE IF g[r][c] = b THEN a ELSE g[r][c]]]

Transpose(g) == [r \in rows |-> [c \in cols |-> g[c][r]]]

CompletedGrids ==
  LET sw == {SwapDigits(Solved, a, b) : a \in values, b \in values}
  IN  sw \cup {Transpose(g) : g \in sw}

EncodeGrid(g) ==
  [i \in Vars |->
     IF \E r \in rows, c \in cols : i = var_index(r, c, g[r][c])
     THEN Den ELSE 0]

InitRoundTrip ==
  /\ pc = "grid"
  /\ puzzle \in CompletedGrids
  /\ constraints = <<>>
  /\ status = "kNotset"
  /\ vals = <<>>
  /\ solution = None
  /\ valid = "unset"
  /\ q = <<0, 0, 1>>
  /\ out = -1

Encode ==
  /\ pc = "grid"
  /\ vals' = EncodeGrid(puzzle)
  /\ status' = "kOptimal"
  /\ pc' = "ran"
  /\ UNCHANGED <<puzzle, constraints, solution, valid, q, out>>

NextRoundTrip == Encode \/ Extract \/ Validate

SpecRoundTrip == InitRoundTrip /\ [][NextRoundTrip]_vars

(***************************************************************************)
(* validate_sudoku on its own: Solved with one cell overwritten by a value *)
(* in 0..MaxVal, or with two of its digits replaced throughout by values   *)
(* in 0..MaxVal.                                                           *)
(***************************************************************************)
Relabel(g, a, x, b, y) ==
  [r \in rows |-> [c \in cols |->
     IF g[r][c] = a THEN x ELSE IF g[r][c] = b THEN y ELSE g[r][c]]]

ValidateInputs ==
  {SetCell(Solved, <<r, c>>, v) : r \in rows, c \in cols, v \in 0..MaxVal}
  \cup {Relabel(Solved, pr[1], x, pr[2], y) :
          pr \in {t \in values \X values : t[1] < t[2]},
          x \in 0..MaxVal, y \in 0..MaxVal}

InitValidate ==
  /\ pc = "returned"
  /\ solution \in ValidateInputs
  /\ puzzle = Solved
  /\ constraints = <<>>
  /\ status = "kNotset"
  /\ vals = <<>>
  /\ valid = "unset"
  /\ q = <<0, 0, 1>>
  /\ out = -1

NextValidate == Validate

SpecValidate == InitValidate /\ [][NextValidate]_vars

(***************************************************************************)
(* var_index on its own, for every triple of its domain.                   *)
(***************************************************************************)
Triples == rows \X cols \X values

InitIndex ==
  /\ pc = "index"
  /\ q \in Triples
  /\ out = -1
  /\ puzzle = Solved
  /\ constraints = <<>>
  /\ status = "kNotset"
  /\ vals = <<>>
  /\ solution = None
  /\ valid = "unset"

CallIndex ==
  /\ pc = "index"
  /\ out' = var_index(q[1], q[2], q[3])
  /\ pc' = "indexed"
  /\ UNCHANGED <<puzzle, constraints, status, vals, solution, valid, q>>

NextIndex == CallIndex

SpecIndex == InitIndex /\ [][NextIndex]_vars

(***************************************************************************)
(* Vocabulary of the properties                                            *)
(***************************************************************************)
IsPermutation(s) == Len(s) = n /\ SetOf(s) = values

GridValid(g) ==
  /\ \A r \in rows : IsPermutation(RowList(g, r))
  /\ \A c \in cols : IsPermutation(ColList(g, c))
  /\ \A br \in BlockOrigins, bc \in BlockOrigins : IsPermutation(BlockList(g, br, bc))

InRange(p) == \A r \in rows, c \in cols : p[r][c] \in 0..n

Cells == rows \X cols

SameGroup(a, b) ==
  \/ a[1] = b[1]
  \/ a[2] = b[2]
  \/ <<a[1] \div block, a[2] \div block>> = <<b[1] \div block, b[2] \div block>>

HasDuplicateGivens(p) ==
  \E a \in Cells, b \in Cells :
    /\ a # b
    /\ SameGroup(a, b)
    /\ p[a[1]][a[2]] # 0
    /\ p[a[1]][a[2]] = p[b[1]][b[2]]

NonZeroCount(p) == Cardinality({a \in Cells : p[a[1]][a[2]] # 0})

OnesOf(vs) == {i \in Vars : vs[i] = Den}

IsBinary(vs) == DOMAIN vs = Vars /\ \A i \in Vars : vs[i] \in {0, Den}

GridReturned == pc \in {"returned", "validated"} /\ solution # None

HitsOf(vs, r, c) == {v \in values : 2 * Abs(vs[r * n * n + c * n + (v - 1)]) > Den}

Largest(S) == CHOOSE x \in S : \A y \in S : y <= x
Smallest(S) == CHOOSE x \in S : \A y \in S : x <= y

FamCount(cs, f) == Cardinality({i \in DOMAIN cs : cs[i].fam = f})

(* C1: whenever the solver returned a 0/1 point satisfying every emitted  *)
(* constraint, the extracted grid has every row, column and block equal   *)
(* to a permutation of 1..9, and validate_sudoku answers True on it.      *)
C1_FeasiblePointYieldsValidGrid ==
  /\ (GridReturned /\ IsBinary(vals) /\ Satisfies(OnesOf(vals), constraints))
       => GridValid(solution)
  /\ (pc = "validated" /\ IsBinary(vals) /\ Satisfies(OnesOf(vals), constraints))
       => valid = "True"

C1_Witness ==
  /\ pc = "validated"
  /\ IsBinary(vals) /\ Satisfies(OnesOf(vals), constraints)
  /\ valid = "True"
  /\ solution # Solved
  /\ \E a \in Cells : puzzle[a[1]][a[2]] = 0

(* C2: for a puzzle with entries in 0..9 for which a grid is returned,    *)
(* every non-zero cell of the puzzle is unchanged in the grid.            *)
C2_GivensUnchanged ==
  (GridReturned /\ InRange(puzzle)) =>
    \A a \in Cells :
      puzzle[a[1]][a[2]] # 0 => solution[a[1]][a[2]] = puzzle[a[1]][a[2]]

C2_Witness ==
  /\ GridReturned /\ InRange(puzzle)
  /\ NonZeroCount(puzzle) > 0
  /\ \E a \in Cells : puzzle[a[1]][a[2]] = 0 /\ solution[a[1]][a[2]] # Solved[a[1]][a[2]]

(* C3: validate_sudoku answers True exactly when every row, column and    *)
(* block of the grid is the set 1..9, for grids with any integer entries. *)
C3_ValidateIffPermutations ==
  pc = "validated" => (valid = "True" <=> GridValid(solution))

(* C4: a puzzle (entries in 0..9) whose givens repeat a value within a    *)
(* row, column or block gets a non-optimal status and the result None:    *)
(* no point satisfies its constraints, so no grid is ever returned.       *)
C4_DuplicateGivensNoSolution ==
  (InRange(puzzle) /\ HasDuplicateGivens(puzzle)) =>
    /\ pc = "ran" => status # "kOptimal"
    /\ pc = "returned" => (solution = None /\ status # "kOptimal")
    /\ pc # "validated"
    /\ pc # "raised"

C4_Witness ==
  /\ InRange(puzzle) /\ HasDuplicateGivens(puzzle)
  /\ pc = "returned" /\ status = "kInfeasible" /\ solution = None
  /\ NonZeroCount(puzzle) = 2
  /\ \E c \in cols : c # 0 /\ puzzle[0][c] = puzzle[0][0]

(* C5: a call on a puzzle with entries in 0..9 ends either with None,     *)
(* when the status is not optimal (no grid exists before or after), or    *)
(* with a 9x9 grid whose entries all lie in 1..9, when the status is      *)
(* optimal; it never raises and never returns a partly filled grid.       *)
C5_NoneOrFullGrid ==
  /\ (pc = "ran" /\ status # "kOptimal") => solution = None
  /\ pc \in {"main", "printed", "start", "cell", "row", "col", "block", "built", "raised"}
       => solution = None
  /\ pc = "returned" =>
       \/ status # "kOptimal" /\ solution = None
       \/ /\ status = "kOptimal" /\ IsBinary(vals) /\ Satisfies(OnesOf(vals), constraints)
          /\ solution \in [rows -> [cols -> values]]
  /\ InRange(puzzle) => pc # "raised"

C5_Witness ==
  /\ pc = "returned" /\ status = "kOptimal"
  /\ solution \in [rows -> [cols -> values]]
  /\ NonZeroCount(puzzle) < n * n

C7_RoundTrip == GridReturned => solution = puzzle

C7_Witness ==
  /\ pc = "returned" /\ solution = puzzle
  /\ GridValid(puzzle) /\ puzzle # Solved
  /\ vals = [i \in Vars |->
               IF puzzle[i \div (n * n)][(i \div n) % n] = (i % n) + 1 THEN Den ELSE 0]

(* C8: the model handed to the solver has 81 rows of each uniqueness      *)
(* family, each a sum of 9 variables, plus one single-variable row per    *)
(* non-zero puzzle cell: 324 + (number of non-zero cells) in all.         *)
C8_ConstraintCount ==
  pc \in {"built", "ran", "returned", "validated"} =>
    /\ Len(constraints) = 4 * n * n + NonZeroCount(puzzle)
    /\ \A f \in {"cell", "row", "col", "block"} : FamCount(constraints, f) = n * n
    /\ FamCount(constraints, "given") = NonZeroCount(puzzle)
    /\ \A i \in DOMAIN constraints :
         Len(constraints[i].terms) = IF constraints[i].fam = "given" THEN 1 ELSE n

C8_Witness ==
  /\ pc = "built"
  /\ NonZeroCount(puzzle) \in 1..(n * n - 1)
  /\ ~InRange(puzzle)
  /\ Len(constraints) = 4 * n * n + NonZeroCount(puzzle)

(* C9: var_index maps the triples (r, c, v), r and c in 0..8, v in 1..9,  *)
(* one-to-one onto 0..728.                                                *)
C9_IndexBijection ==
  pc = "indexed" =>
    /\ out \in 0..(n * n * n - 1)
    /\ \A t \in Triples : var_index(t[1], t[2], t[3]) = out => t = q
    /\ q = <<out \div (n * n), (out \div n) % n, (out % n) + 1>>
    /\ \A k \in 0..(n * n * n - 1) :
         /\ <<k \div (n * n), (k \div n) % n, (k % n) + 1>> \in Triples
         /\ var_index(k \div (n * n), (k \div n) % n, (k % n) + 1) = k

C9_Witness == pc = "indexed" /\ q = <<n - 1, n - 1, n>> /\ out = n * n * n - 1

(* C10: no range check.  A non-zero entry val outside 1..9 raises no        *)
(* validation error: its fixing row is put on index r*81 + c*9 + (val-1)    *)
(* whenever that index is below 729, which is the variable of another      *)
(* (cell, value) triple, and a returned grid holds that other triple's     *)
(* value at that other cell instead of val at (r, c).                      *)
C10_OutOfRangeFixesOtherCell ==
  /\ pc = "raised" =>
       \E a \in Cells : puzzle[a[1]][a[2]] # 0
                        /\ a[1] * n * n + a[2] * n + (puzzle[a[1]][a[2]] - 1) >= n * n * n
  /\ \A a \in Cells :
       LET val == puzzle[a[1]][a[2]]
           idx == a[1] * n * n + a[2] * n + (val - 1)
           other == <<idx \div (n * n), (idx \div n) % n>>
       IN  (val \notin 0..n /\ pc \in {"built", "ran", "returned", "validated"}) =>
             /\ idx \in 0..(n * n * n - 1)
             /\ \E i \in DOMAIN constraints :
                  constraints[i].fam = "given" /\ constraints[i].cell = a
                  /\ constraints[i].terms = <<idx>>
             /\ other # a
             /\ (val = n + 1 /\ a[2] <= n - 2) => other = <<a[1], a[2] + 1>> /\ idx % n = 0
             /\ GridReturned =>
                  /\ solution[other[1]][other[2]] = (idx % n) + 1
                  /\ solution[a[1]][a[2]] # val

C10_Witness ==
  /\ pc = "validated" /\ valid = "True"
  /\ \E a \in Cells :
       /\ a[2] <= n - 2
       /\ puzzle[a[1]][a[2]] = n + 1
       /\ solution[a[1]][a[2]] # puzzle[a[1]][a[2]]
       /\ solution[a[1]][a[2] + 1] = 1

====
